---- MODULE Spec2Model ----
(***************************************************************************)
(* Model of the VM orchestration core of linuxedu-backend.                 *)
(*                                                                         *)
(* The specifications share the record store:                              *)
(*   Spec        the service wired to the routes (VMService in             *)
(*               app/services/vm_services.py): create_vm, delete_vm,       *)
(*               reset_vm running as concurrent requests, each with its    *)
(*               own database transaction;                                 *)
(*   SpecBurst   N concurrent create_vm requests of N distinct users on a  *)
(*               pool with K Free addresses, remote side never failing;    *)
(*   SpecAlloc   the module-level allocate_resources of the same file;     *)
(*   SpecGateway ProxmoxService._proxmox_request and the verbs built on    *)
(*               it, with VMService.start_vm as the lifecycle caller;      *)
(*   SpecLifecycle, SpecPipeline, SpecRoundTrip                            *)
(*               the lifecycle operations of VMService on one record,      *)
(*               the provisioning pipeline of create_vm, and create_vm     *)
(*               after delete_vm for one user;                             *)
(*   SpecMonitor the two loops of VMMonitoringService next to a delete;    *)
(*   SpecBalance LoadBalancingService.select_best_node;                    *)
(*   SpecReconcile the two loops alone, each going on for ever;            *)
(*   SpecWatched create_vm next to the status loop;                        *)
(*   SpecExpiry  a started VM over weeks, with cleanup_inactive_vms;       *)
(*   SpecTaskWait the module-level _wait_for_proxmox_task.                 *)
(*                                                                         *)
(* The store is PostgreSQL at READ COMMITTED: the variables next_id,       *)
(* ipStatus and vms are the committed rows, seqLock and ipLock the row     *)
(* locks taken by SELECT ... FOR UPDATE, and what a transaction has        *)
(* written but not committed lives in its locals (new_vmid, allocated_ip). *)
(* create_vm and reset_vm read the counter column as next_id while         *)
(* models/vm.py names it next_vm_id; the model takes both names to be      *)
(* the one counter column of the vm_id_sequence row.                       *)
(***************************************************************************)
EXTENDS Integers, Sequences, FiniteSets, TLC

(* ---------------------------------------------------------------- bounds *)
NumIPs == 2
\* the clock advances MaxNow times, TickMinutes minutes each time
MaxNow == 1
TickMinutes == 20

(* ------------------------------------------------------------- constants *)
FirstVmid == 200
VM_DEFAULT_TIMEOUT_SECONDS == 43200

Procs == {1, 2, 3}
Users == {"u1", "u2", "u3"}
MainProcs == Procs
MainUsers == {"u1", "u2"}
IPs == 1..NumIPs
NoProc == 0
NoIP == 0
NoVm == 0
NoTime == -1

VMStatus == {"created", "provisioning", "ready", "running", "stopped", "failed", "deleted"}
IPStatus == {"free", "allocated", "reserved"}

VARIABLES
  next_id,       \* vm_id_sequence.next_vm_id, committed
  seqLock,       \* holder of the row lock on the sequence row
  ipStatus,      \* allocated_ips.status per address, committed
  ipLock,        \* holder of the row lock on each address row
  vms,           \* users_vms rows, committed; the index is VM.id
  now,           \* wall clock, minutes
  pc,            \* per request: the statement it is suspended at
  op,            \* per request: the operation it runs
  user,          \* per request: the requesting user id
  target,        \* per request: the vm_id argument of a lifecycle call
  new_vmid,      \* per request: local new_vmid / new_vm_id
  allocated_ip,  \* per request: local allocated_ip / ip_record
  vm,            \* per request: id of the row the request inserted or loaded
  result,        \* per request: HTTP status the route answers with
  remote,        \* per request: the running operation has made a remote call
  issued,        \* history: how often each VMID was read off the sequence
  loaded,        \* the row as _get_user_vm loaded it for the lifecycle call
  gwPc,          \* _proxmox_request: idle, send, sleep, returned, raised
  gwVerb,        \* the ProxmoxService verb that called _proxmox_request
  attempt,       \* _proxmox_request: the loop variable attempt
  responses,     \* history: what the hypervisor answered to each request sent
  waits,         \* history: the asyncio.sleep durations, seconds
  gwOut,         \* what _proxmox_request returned (data) or raised (status)
  task,          \* hypervisor side: the task the accepted request enqueued
  extension_minutes, \* per request: the extension_minutes argument of extend_time
  new_expiry,    \* per request: local new_expiry of extend_time
  calls,         \* history, per request: the remote calls made and how each ended
  cluster,       \* hypervisor side, per record: where its VM is and in what state
  mon,           \* per monitoring loop: its position, its loaded rows, its history
  alerts,        \* history, per record: the migration alerts sent for it
  node_status,   \* hypervisor side, per node: the answer to the node status request
  best_node,     \* what select_best_node returned or raised
  wait           \* _wait_for_proxmox_task: the answers of the task status
                 \* endpoint, the polls done, and how the wait ended

storeVars == <<next_id, seqLock, ipStatus, ipLock, vms>>
procVars == <<pc, op, user, target, new_vmid, allocated_ip, vm, result, remote>>
gwVars == <<loaded, gwPc, gwVerb, attempt, responses, waits, gwOut, task>>
argVars == <<extension_minutes, new_expiry>>
lcVars == <<extension_minutes, new_expiry, calls>>
bgVars == <<cluster, mon, alerts, node_status, best_node, wait>>
vars == <<next_id, seqLock, ipStatus, ipLock, vms, now, pc, op, user, target,
          new_vmid, allocated_ip, vm, result, remote, issued, loaded, gwPc,
          gwVerb, attempt, responses, waits, gwOut, task,
          extension_minutes, new_expiry, calls, cluster, mon, alerts,
          node_status, best_node, wait>>

(* ------------------------------------------------------------ the store *)
DefaultTimeoutHalved == VM_DEFAULT_TIMEOUT_SECONDS \div 120

DefaultTimeoutMinutes == VM_DEFAULT_TIMEOUT_SECONDS \div 60

VmIds == 1..Len(vms)

NewVM(u, vmid, ip) ==
  [user_id |-> u, proxmox_vm_id |-> vmid, vm_status |-> "created",
   ip_address |-> ip, runtime_expires_at |-> NoTime, last_active_at |-> NoTime]

ActiveVmsOfRunningOnly(u) ==
  {i \in VmIds : vms[i].user_id = u /\ vms[i].vm_status = "running"}

\* select(VM).where(user_id == u & vm_status != DELETED)
ActiveVmsOf(u) ==
  {i \in VmIds : vms[i].user_id = u /\ vms[i].vm_status # "deleted"}

InsertAllowedVmidOnly(row) ==
  \A i \in VmIds : vms[i].proxmox_vm_id # row.proxmox_vm_id

\* unique=True on users_vms.proxmox_vm_id and users_vms.ip_address (every row,
\* Deleted ones included), checked when the INSERT is flushed
InsertAllowed(row) ==
  \A i \in VmIds : /\ vms[i].proxmox_vm_id # row.proxmox_vm_id
                   /\ vms[i].ip_address # row.ip_address

\* select(AllocatedIP).where(status == FREE).with_for_update().limit(1):
\* a Free row whose lock can be taken
FreeCandidates == {i \in IPs : ipStatus[i] = "free" /\ ipLock[i] = NoProc}

\* allocated_ip.status = IPStatus.ALLOCATED
AllocatedMark == "allocated"

Issue(v) ==
  issued' = [issued EXCEPT ![v] = @ + 1]

Goto(p, l) == pc' = [pc EXCEPT ![p] = l]

\* the operation returns: the route answers with status code
Return(p, code) ==
  /\ pc' = [pc EXCEPT ![p] = "done"]
  /\ result' = [result EXCEPT ![p] = code]

\* calls observes the requests without acting on them; a specification
\* whose properties do not read it starts with the observer switched off
Unobserved == << <<"unobserved", "">> >>

\* the request makes the remote call name, which ends with outcome o
Call(p, name, o) ==
  calls' = IF calls[p] = Unobserved
             THEN calls
             ELSE [calls EXCEPT ![p] = Append(@, <<name, o>>)]

(* create_vm returns None: the route raises 400, get_db rolls the session back *)
RouteCreateFailed == 400
RouteCreated == 201
(* the status allocate_resources raises when the pool has no Free address *)
ResourceExhausted == 507

(* ---------------------------------------------------------------- Init *)
TypeOK ==
  /\ next_id \in Nat
  /\ seqLock \in Procs \cup {NoProc}
  /\ ipStatus \in [IPs -> IPStatus]
  /\ ipLock \in [IPs -> Procs \cup {NoProc}]
  /\ now \in 0..(MaxNow * TickMinutes)

InitStore ==
  /\ next_id = FirstVmid
  /\ seqLock = NoProc
  /\ \E k \in 0..NumIPs :
       ipStatus = [i \in IPs |-> IF i <= k THEN "free" ELSE "reserved"]
  /\ ipLock = [i \in IPs |-> NoProc]
  /\ vms = <<>>
  /\ now = 0
  /\ issued = [v \in FirstVmid..(FirstVmid + Cardinality(Procs)) |-> 0]

InitProcs ==
  /\ pc = [p \in Procs |-> "idle"]
  /\ op = [p \in Procs |-> "none"]
  /\ user = [p \in Procs |-> "u1"]
  /\ target = [p \in Procs |-> NoVm]
  /\ new_vmid = [p \in Procs |-> 0]
  /\ allocated_ip = [p \in Procs |-> NoIP]
  /\ vm = [p \in Procs |-> NoVm]
  /\ result = [p \in Procs |-> 0]
  /\ remote = [p \in Procs |-> FALSE]
  /\ extension_minutes = [p \in Procs |-> 0]
  /\ new_expiry = [p \in Procs |-> NoTime]

NoRow == [vm_status |-> "none"]

InitGw ==
  /\ loaded = NoRow
  /\ gwPc = "idle"
  /\ gwVerb = "none"
  /\ attempt = 0
  /\ responses = <<>>
  /\ waits = <<>>
  /\ gwOut = "none"
  /\ task = "none"

CallsOff == calls = [p \in Procs |-> Unobserved]
CallsOn == calls = [p \in Procs |-> <<>>]

\* the monitoring loops and the node selection are not running
InitIdle ==
  /\ cluster = <<>>
  /\ mon = <<>>
  /\ alerts = <<>>
  /\ node_status = <<>>
  /\ best_node = "none"
  /\ wait = <<>>

Init == InitStore /\ InitProcs /\ InitGw /\ CallsOff /\ InitIdle

(* ------------------------------------------------------------ requests *)
\* a request arrives; the requests are numbered in the order they arrive and
\* each is served once
BeginWith(p, o, u, t, first, m) ==
  /\ pc[p] = "idle"
  /\ \A q \in Procs : q < p => pc[q] # "idle"
  /\ pc' = [pc EXCEPT ![p] = first]
  /\ op' = [op EXCEPT ![p] = o]
  /\ user' = [user EXCEPT ![p] = u]
  /\ target' = [target EXCEPT ![p] = t]
  /\ new_vmid' = [new_vmid EXCEPT ![p] = 0]
  /\ allocated_ip' = [allocated_ip EXCEPT ![p] = NoIP]
  /\ vm' = [vm EXCEPT ![p] = NoVm]
  /\ result' = [result EXCEPT ![p] = 0]
  /\ remote' = [remote EXCEPT ![p] = FALSE]
  /\ extension_minutes' = [extension_minutes EXCEPT ![p] = m]
  /\ UNCHANGED <<new_expiry, calls, bgVars, gwVars, storeVars, now, issued>>

Begin(p, o, u, t, first) == BeginWith(p, o, u, t, first, 0)

BeginCreate(p) ==
  \E u \in MainUsers : Begin(p, "create", u, NoVm, "c_check")

(* ----------------------------------------------- VMService.create_vm *)
\* 1. admission check: a plain SELECT, no lock
CreateCheck(p) ==
  /\ pc[p] = "c_check"
  /\ IF ActiveVmsOf(user[p]) # {}
       THEN Return(p, RouteCreateFailed)
       ELSE Goto(p, "c_seq") /\ UNCHANGED result
  /\ UNCHANGED <<lcVars, bgVars, gwVars, storeVars, now, op, user, target, new_vmid, allocated_ip, vm,
                 remote, issued>>

\* 2. select(VMIDSequence).with_for_update(): waits for the row lock, then
\*    new_vmid = next_id; next_id += 1 (pending until the commit)
CreateLockSeq(p) ==
  /\ pc[p] = "c_seq"
  /\ seqLock = NoProc
  /\ seqLock' = p
  /\ new_vmid' = [new_vmid EXCEPT ![p] = next_id]
  /\ Issue(next_id)
  /\ Goto(p, "c_ip")
  /\ UNCHANGED <<lcVars, bgVars, gwVars, next_id, ipStatus, ipLock, vms, now, op, user, target,
                 allocated_ip, vm, result, remote>>

\* rollback of the open transaction: pending writes dropped, locks released
Rollback(p) ==
  /\ seqLock' = IF seqLock = p THEN NoProc ELSE seqLock
  /\ ipLock' = [i \in IPs |-> IF ipLock[i] = p THEN NoProc ELSE ipLock[i]]
  /\ UNCHANGED <<next_id, ipStatus, vms>>

\*    select a Free address FOR UPDATE LIMIT 1; scalar_one() raises when there
\*    is none, the except clause returns None
CreateSelectIP(p) ==
  /\ pc[p] = "c_ip"
  /\ \/ /\ {i \in IPs : ipStatus[i] = "free"} = {}
        /\ Rollback(p)
        /\ Return(p, RouteCreateFailed)
        /\ UNCHANGED allocated_ip
     \/ \E i \in FreeCandidates :
          /\ ipLock' = [ipLock EXCEPT ![i] = p]
          /\ allocated_ip' = [allocated_ip EXCEPT ![p] = i]
          /\ Goto(p, "c_commit")
          /\ UNCHANGED <<next_id, seqLock, ipStatus, vms, result>>
  /\ UNCHANGED <<lcVars, bgVars, gwVars, now, op, user, target, new_vmid, vm, remote, issued>>

\* 3. db.add(vm); db.commit(): counter, address and row become visible
\*    together, or the INSERT violates a unique constraint and nothing does
CreateCommit(p) ==
  /\ pc[p] = "c_commit"
  /\ LET row == NewVM(user[p], new_vmid[p], allocated_ip[p]) IN
       IF InsertAllowed(row)
         THEN /\ next_id' = new_vmid[p] + 1
              /\ ipStatus' = [ipStatus EXCEPT ![allocated_ip[p]] = AllocatedMark]
              /\ vms' = Append(vms, row)
              /\ seqLock' = NoProc
              /\ ipLock' = [ipLock EXCEPT ![allocated_ip[p]] = NoProc]
              /\ vm' = [vm EXCEPT ![p] = Len(vms) + 1]
              /\ Goto(p, "c_empty")
              /\ UNCHANGED result
         ELSE /\ Rollback(p)
              /\ Return(p, RouteCreateFailed)
              /\ UNCHANGED vm
  /\ UNCHANGED <<lcVars, bgVars, gwVars, now, op, user, target, new_vmid, allocated_ip, remote,
                 issued>>

\* UPDATE users_vms SET vm_status = s WHERE id = vm.id, committed
SetStatus(id, s) ==
  vms' = [vms EXCEPT ![id].vm_status = s]

PassedAlways(o) == TRUE

\* "if not await self.proxmox.<step>(...)": the step's result lets the
\* pipeline go on
Passed(o) == o = "ok"

\* a remote step of the pipeline that raises: the except clause of create_vm
\* logs and returns None, the row keeps the state it had
CreateRaised(p) ==
  /\ Return(p, RouteCreateFailed)
  /\ UNCHANGED vms

\* a remote step that returns False: vm_status = FAILED, commit, return None
CreateFailed(p) ==
  /\ SetStatus(vm[p], "failed")
  /\ Return(p, RouteCreateFailed)

\* 4. create_empty_vm: True, or _proxmox_request raises
CreateEmpty(p, outcomes) ==
  /\ pc[p] = "c_empty"
  /\ remote' = [remote EXCEPT ![p] = TRUE]
  /\ \E o \in outcomes :
       /\ Call(p, "create_empty_vm", o)
       /\ IF Passed(o) THEN Goto(p, "c_import") /\ UNCHANGED <<vms, result>>
                      ELSE CreateRaised(p)
  /\ UNCHANGED <<argVars, bgVars, gwVars, next_id, seqLock, ipStatus, ipLock, now, op, user, target,
                 new_vmid, allocated_ip, vm, issued>>

\* 5. import_disk_ceph: True, or False (it catches its own exceptions)
CreateImport(p, outcomes) ==
  /\ pc[p] = "c_import"
  /\ remote' = [remote EXCEPT ![p] = TRUE]
  /\ \E o \in outcomes :
       /\ Call(p, "import_disk_ceph", o)
       /\ IF Passed(o) THEN Goto(p, "c_configure") /\ UNCHANGED <<vms, result>>
                      ELSE CreateFailed(p)
  /\ UNCHANGED <<argVars, bgVars, gwVars, next_id, seqLock, ipStatus, ipLock, now, op, user, target,
                 new_vmid, allocated_ip, vm, issued>>

\* 6. configure_vm: True, or _proxmox_request raises
CreateConfigure(p, outcomes) ==
  /\ pc[p] = "c_configure"
  /\ remote' = [remote EXCEPT ![p] = TRUE]
  /\ \E o \in outcomes :
       /\ Call(p, "configure_vm", o)
       /\ IF Passed(o) THEN Goto(p, "c_start") /\ UNCHANGED <<vms, result>>
                      ELSE CreateRaised(p)
  /\ UNCHANGED <<argVars, bgVars, gwVars, next_id, seqLock, ipStatus, ipLock, now, op, user, target,
                 new_vmid, allocated_ip, vm, issued>>

\* 7. start_vm: True, or _proxmox_request raises
CreateStart(p, outcomes) ==
  /\ pc[p] = "c_start"
  /\ remote' = [remote EXCEPT ![p] = TRUE]
  /\ \E o \in outcomes :
       /\ Call(p, "start_vm", o)
       /\ IF Passed(o) THEN Goto(p, "c_poll") /\ UNCHANGED <<vms, result>>
                      ELSE CreateRaised(p)
  /\ UNCHANGED <<argVars, bgVars, gwVars, next_id, seqLock, ipStatus, ipLock, now, op, user, target,
                 new_vmid, allocated_ip, vm, issued>>

\* 8. poll_vm_ready: True when get_vm_status answered "running" within 30
\*    polls, False after the last one; create_vm does not look at the result
\* 9. vm_status = PROVISIONING, commit
CreatePoll(p, polls) ==
  /\ pc[p] = "c_poll"
  /\ remote' = [remote EXCEPT ![p] = TRUE]
  /\ \E o \in polls : Call(p, "poll_vm_ready", o)
  /\ SetStatus(vm[p], "provisioning")
  /\ Goto(p, "c_ansible")
  /\ UNCHANGED <<argVars, bgVars, gwVars, next_id, seqLock, ipStatus, ipLock, now, op, user, target,
                 new_vmid, allocated_ip, vm, result, issued>>

\*    run_setup_vm (a blocking subprocess): False -> FAILED;
\* 10. True -> READY, runtime_expires_at = now + default, last_active_at = now
CreateAnsible(p, outcomes) ==
  /\ pc[p] = "c_ansible"
  /\ remote' = [remote EXCEPT ![p] = TRUE]
  /\ \E o \in outcomes :
       /\ Call(p, "run_setup_vm", o)
       /\ IF o = "ok"
            THEN /\ vms' = [vms EXCEPT ![vm[p]].vm_status = "ready",
                                       ![vm[p]].runtime_expires_at = now + DefaultTimeoutMinutes,
                                       ![vm[p]].last_active_at = now]
                 /\ Return(p, RouteCreated)
            ELSE CreateFailed(p)
  /\ UNCHANGED <<argVars, bgVars, gwVars, next_id, seqLock, ipStatus, ipLock, now, op, user, target,
                 new_vmid, allocated_ip, vm, issued>>

RemoteOutcomes == {"ok", "fail"}

PollOutcomes == {"ok", "timeout"}

CreateVM(p, outcomes, polls) ==
  \/ CreateCheck(p)
  \/ CreateLockSeq(p)
  \/ CreateSelectIP(p)
  \/ CreateCommit(p)
  \/ CreateEmpty(p, outcomes)
  \/ CreateImport(p, outcomes)
  \/ CreateConfigure(p, outcomes)
  \/ CreateStart(p, outcomes)
  \/ CreatePoll(p, polls)
  \/ CreateAnsible(p, outcomes)

(* --------------------------------------------- VMService._get_user_vm *)
\* 404 when no row has the id, 403 when the row is another user's; a Deleted
\* row is returned like any other
GetUserVm(p) ==
  IF target[p] \notin VmIds THEN 404
  ELSE IF vms[target[p]].user_id # user[p] THEN 403
  ELSE 0

LoadVm(p, nextpc) ==
  /\ LET code == GetUserVm(p) IN
       IF code # 0
         THEN Return(p, code) /\ UNCHANGED vm
         ELSE /\ vm' = [vm EXCEPT ![p] = target[p]]
              /\ Goto(p, nextpc)
              /\ UNCHANGED result

(* ----------------------------------------------- VMService.delete_vm *)
BeginDelete(p) ==
  \E u \in MainUsers, t \in 1..(Len(vms) + 1) : Begin(p, "delete", u, t, "d_get")

DeleteGet(p) ==
  /\ pc[p] = "d_get"
  /\ LoadVm(p, "d_destroy")
  /\ UNCHANGED <<lcVars, bgVars, gwVars, storeVars, now, op, user, target, new_vmid, allocated_ip,
                 remote, issued>>

DestroyErrorPasses(o) == o = "ok"

\* try: await self.proxmox.destroy_vm(...) except Exception: logger.warning:
\* whatever the call does, the statements after the try block run
DestroySwallowed(o) == TRUE

\* proxmox.destroy_vm inside try/except: an error is logged, nothing else
DeleteDestroy(p, outcomes) ==
  /\ pc[p] = "d_destroy"
  /\ remote' = [remote EXCEPT ![p] = TRUE]
  /\ \E o \in outcomes :
       /\ Call(p, "destroy_vm", o)
       /\ IF DestroySwallowed(o) THEN Goto(p, "d_commit") /\ UNCHANGED result
                                 ELSE Return(p, 502)
  /\ UNCHANGED <<argVars, bgVars, gwVars, storeVars, now, op, user, target, new_vmid, allocated_ip, vm,
                 issued>>

\* vm_status = DELETED, runtime_expires_at = None, the address row with the
\* VM's ip_address goes to FREE, commit
DeleteCommit(p) ==
  /\ pc[p] = "d_commit"
  /\ vms' = [vms EXCEPT ![vm[p]].vm_status = "deleted",
                        ![vm[p]].runtime_expires_at = NoTime]
  /\ ipStatus' = [ipStatus EXCEPT ![vms[vm[p]].ip_address] = "free"]
  /\ Return(p, 200)
  /\ UNCHANGED <<lcVars, bgVars, gwVars, next_id, seqLock, ipLock, now, op, user, target, new_vmid,
                 allocated_ip, vm, remote, issued>>

DeleteVM(p, outcomes) ==
  \/ DeleteGet(p)
  \/ DeleteDestroy(p, outcomes)
  \/ DeleteCommit(p)

(* ------------------------------------------------ VMService.reset_vm *)
BeginReset(p) ==
  \E u \in MainUsers, t \in 1..(Len(vms) + 1) : Begin(p, "reset", u, t, "r_get")

ResetGet(p) ==
  /\ pc[p] = "r_get"
  /\ LoadVm(p, "r_seq")
  /\ UNCHANGED <<lcVars, bgVars, gwVars, storeVars, now, op, user, target, new_vmid, allocated_ip,
                 remote, issued>>

\* select(VMIDSequence).with_for_update(); new_vm_id = next_id
ResetLockSeq(p) ==
  /\ pc[p] = "r_seq"
  /\ seqLock = NoProc
  /\ seqLock' = p
  /\ new_vmid' = [new_vmid EXCEPT ![p] = next_id]
  /\ Issue(next_id)
  /\ Goto(p, "r_seqcommit")
  /\ UNCHANGED <<lcVars, bgVars, gwVars, next_id, ipStatus, ipLock, vms, now, op, user, target,
                 allocated_ip, vm, result, remote>>

\* next_id += 1; commit
ResetSeqCommit(p) ==
  /\ pc[p] = "r_seqcommit"
  /\ next_id' = new_vmid[p] + 1
  /\ seqLock' = NoProc
  /\ Goto(p, "r_build")
  /\ UNCHANGED <<lcVars, bgVars, gwVars, ipStatus, ipLock, vms, now, op, user, target, new_vmid,
                 allocated_ip, vm, result, remote, issued>>

\* create_empty_vm, import_disk_ceph, configure_vm for the new VMID; any
\* failure is raised as 502
ResetBuild(p, outcomes) ==
  /\ pc[p] = "r_build"
  /\ remote' = [remote EXCEPT ![p] = TRUE]
  /\ \E o \in outcomes :
       /\ Call(p, "create_empty_vm, import_disk_ceph, configure_vm", o)
       /\ IF o = "ok" THEN Goto(p, "r_destroy") /\ UNCHANGED result
                      ELSE Return(p, 502)
  /\ UNCHANGED <<argVars, bgVars, gwVars, storeVars, now, op, user, target, new_vmid, allocated_ip, vm,
                 issued>>

\* destroy_vm(old_vm_id), in the same try block
ResetDestroy(p, outcomes) ==
  /\ pc[p] = "r_destroy"
  /\ remote' = [remote EXCEPT ![p] = TRUE]
  /\ \E o \in outcomes :
       /\ Call(p, "destroy_vm", o)
       /\ IF o = "ok" THEN Goto(p, "r_ansible") /\ UNCHANGED result
                      ELSE Return(p, 502)
  /\ UNCHANGED <<argVars, bgVars, gwVars, storeVars, now, op, user, target, new_vmid, allocated_ip, vm,
                 issued>>

ResetRecordKeepsExpiry(row, vmid, t) ==
  [row EXCEPT !.proxmox_vm_id = vmid, !.vm_status = "ready",
              !.last_active_at = t]

\* old_vm.proxmox_vm_id = new_vm_id; vm_status = READY;
\* runtime_expires_at = None; last_active_at = utcnow()
ResetRecord(row, vmid, t) ==
  [row EXCEPT !.proxmox_vm_id = vmid, !.vm_status = "ready",
              !.runtime_expires_at = NoTime, !.last_active_at = t]

\* run_setup_vm on the old address; on success the row takes the new VMID,
\* READY, no expiry, last_active_at = now; commit
ResetAnsible(p, outcomes) ==
  /\ pc[p] = "r_ansible"
  /\ remote' = [remote EXCEPT ![p] = TRUE]
  /\ \E o \in outcomes :
       /\ Call(p, "run_setup_vm", o)
       /\ IF o = "ok"
            THEN /\ vms' = [vms EXCEPT ![vm[p]] =
                                         ResetRecord(vms[vm[p]], new_vmid[p], now)]
                 /\ Return(p, 200)
            ELSE Return(p, 502) /\ UNCHANGED vms
  /\ UNCHANGED <<argVars, bgVars, gwVars, next_id, seqLock, ipStatus, ipLock, now, op, user, target,
                 new_vmid, allocated_ip, vm, issued>>

ResetVM(p, outcomes) ==
  \/ ResetGet(p)
  \/ ResetLockSeq(p)
  \/ ResetSeqCommit(p)
  \/ ResetBuild(p, outcomes)
  \/ ResetDestroy(p, outcomes)
  \/ ResetAnsible(p, outcomes)

(* --------------------------------------------------------------- clock *)
Tick ==
  /\ now < MaxNow * TickMinutes
  /\ now' = now + TickMinutes
  /\ UNCHANGED <<lcVars, bgVars, storeVars, procVars, issued, gwVars>>

(* ------------------------------------------------------------------------ *)
Next ==
  \E p \in MainProcs :
    \/ BeginCreate(p)
    \/ BeginDelete(p)
    \/ BeginReset(p)
    \/ CreateVM(p, RemoteOutcomes, PollOutcomes)
    \/ DeleteVM(p, RemoteOutcomes)
    \/ ResetVM(p, RemoteOutcomes)

Spec == Init /\ [][Next]_vars

(* ------------------------------------------- N creations, K addresses *)
\* request p is made by the p-th user; the remote side never fails
BurstUser(p) == IF p = 1 THEN "u1" ELSE IF p = 2 THEN "u2" ELSE "u3"

BeginBurst(p) == Begin(p, "create", BurstUser(p), NoVm, "c_check")

NextBurst ==
  \E p \in Procs :
    \/ BeginBurst(p)
    \/ CreateVM(p, {"ok"}, {"ok"})

SpecBurst == Init /\ [][NextBurst]_vars

(* ------------------------------ create_vm and reset_vm, calls observed *)
\* requests of one user; every remote call can fail, the poll can time out
InitPipeline == InitStore /\ InitProcs /\ InitGw /\ CallsOn /\ InitIdle

BeginPipelineCreate(p) == Begin(p, "create", "u1", NoVm, "c_check")

BeginPipelineReset(p) ==
  \E t \in 1..(Len(vms) + 1) : Begin(p, "reset", "u1", t, "r_get")

\* two requests, one after the other or overlapping
PipelineProcs == {1, 2}

NextPipeline ==
  \/ \E p \in PipelineProcs :
       \/ BeginPipelineCreate(p)
       \/ BeginPipelineReset(p)
       \/ CreateVM(p, RemoteOutcomes, PollOutcomes)
       \/ ResetVM(p, RemoteOutcomes)
  \/ Tick

SpecPipeline == InitPipeline /\ [][NextPipeline]_vars

(* ------------------------- create_vm and delete_vm of one user, observed *)
\* the remote steps of a creation succeed; the destroy of a deletion can fail
BeginRoundTripCreate(p) == Begin(p, "create", "u1", NoVm, "c_check")

BeginRoundTripDelete(p) ==
  \E t \in 1..(Len(vms) + 1) : Begin(p, "delete", "u1", t, "d_get")

NextRoundTrip ==
  \E p \in Procs :
    \/ BeginRoundTripCreate(p)
    \/ BeginRoundTripDelete(p)
    \/ CreateVM(p, {"ok"}, {"ok"})
    \/ DeleteVM(p, RemoteOutcomes)

SpecRoundTrip == InitPipeline /\ [][NextRoundTrip]_vars

(* ------------------------------------------------- allocate_resources *)
BeginAlloc(p) == Begin(p, "alloc", user[p], NoVm, "a_check")

\* check_ceph_health raises 503 or 507, validate_disk_space_for_vm False -> 507
AllocPrecheck(p) ==
  /\ pc[p] = "a_check"
  /\ remote' = [remote EXCEPT ![p] = TRUE]
  /\ \E code \in {0, 503, 507} :
       IF code = 0 THEN Goto(p, "a_seq") /\ UNCHANGED result
                   ELSE Return(p, code)
  /\ UNCHANGED <<lcVars, bgVars, gwVars, storeVars, now, op, user, target, new_vmid, allocated_ip, vm,
                 issued>>

\* 5. select(VMIDSequence).with_for_update(nowait=True): a locked row raises,
\*    the except clause turns it into 500
AllocLockSeq(p) ==
  /\ pc[p] = "a_seq"
  /\ IF seqLock # NoProc
       THEN /\ Return(p, 500)
            /\ UNCHANGED <<seqLock, new_vmid, issued>>
       ELSE /\ seqLock' = p
            /\ new_vmid' = [new_vmid EXCEPT ![p] = next_id]
            /\ Issue(next_id)
            /\ Goto(p, "a_seqcommit")
            /\ UNCHANGED result
  /\ UNCHANGED <<lcVars, bgVars, gwVars, next_id, ipStatus, ipLock, vms, now, op, user, target,
                 allocated_ip, vm, remote>>

\*    seq.next_vm_id += 1; commit
AllocSeqCommit(p) ==
  /\ pc[p] = "a_seqcommit"
  /\ next_id' = new_vmid[p] + 1
  /\ seqLock' = NoProc
  /\ Goto(p, "a_ip")
  /\ UNCHANGED <<lcVars, bgVars, gwVars, ipStatus, ipLock, vms, now, op, user, target, new_vmid,
                 allocated_ip, vm, result, remote, issued>>

\* 6. select a Free address FOR UPDATE NOWAIT LIMIT 1
AllocSelectIP(p) ==
  /\ pc[p] = "a_ip"
  /\ LET free == {i \in IPs : ipStatus[i] = "free"} IN
       \/ /\ free = {}
          /\ Goto(p, "a_giveback")
          /\ UNCHANGED <<ipLock, allocated_ip, result>>
       \/ \E i \in free :
            IF ipLock[i] # NoProc
              THEN /\ Return(p, 500)
                   /\ UNCHANGED <<ipLock, allocated_ip>>
              ELSE /\ ipLock' = [ipLock EXCEPT ![i] = p]
                   /\ allocated_ip' = [allocated_ip EXCEPT ![p] = i]
                   /\ Goto(p, "a_ipcommit")
                   /\ UNCHANGED result
  /\ UNCHANGED <<lcVars, bgVars, gwVars, next_id, seqLock, ipStatus, vms, now, op, user, target,
                 new_vmid, vm, remote, issued>>

\*    no Free address: seq.next_vm_id -= 1 on the session's object (which
\*    holds the value this request wrote), commit, raise 507
AllocGiveBack(p) ==
  /\ pc[p] = "a_giveback"
  /\ seqLock = NoProc
  /\ next_id' = (new_vmid[p] + 1) - 1
  /\ Return(p, 507)
  /\ UNCHANGED <<lcVars, bgVars, gwVars, seqLock, ipStatus, ipLock, vms, now, op, user, target,
                 new_vmid, allocated_ip, vm, remote, issued>>

\*    ip_record.status = 'allocated'; commit; return (vmid, ip, node)
AllocIPCommit(p) ==
  /\ pc[p] = "a_ipcommit"
  /\ ipStatus' = [ipStatus EXCEPT ![allocated_ip[p]] = "allocated"]
  /\ ipLock' = [ipLock EXCEPT ![allocated_ip[p]] = NoProc]
  /\ Return(p, 200)
  /\ UNCHANGED <<lcVars, bgVars, gwVars, next_id, seqLock, vms, now, op, user, target, new_vmid,
                 allocated_ip, vm, remote, issued>>

AllocateResources(p) ==
  \/ AllocPrecheck(p)
  \/ AllocLockSeq(p)
  \/ AllocSeqCommit(p)
  \/ AllocSelectIP(p)
  \/ AllocGiveBack(p)
  \/ AllocIPCommit(p)

NextAlloc ==
  \E p \in Procs :
    \/ BeginAlloc(p)
    \/ AllocateResources(p)

SpecAlloc == Init /\ [][NextAlloc]_vars

(* ------------------------------------ ProxmoxService._proxmox_request *)
\* retry_count: int = 3
RetryCount == 3

Data == {"a", "b"}

\* what one HTTP request can come back with: a status with the body's "data",
\* or no response at all (status 0: requests raised, a timeout included)
ResponseSet ==
  {[status |-> st, data |-> d] : st \in {200, 201}, d \in Data}
    \cup {[status |-> st, data |-> "none"] : st \in {0, 404, 500, 503}}

Succeeded(r) == r.status \in {200, 201}

BackoffWaitFromTwo(a) == 2 ^ (a + 1)

\* wait_time = 2 ** attempt
BackoffWait(a) == 2 ^ a

Verbs == {"create_empty_vm", "configure_vm", "start_vm", "shutdown_vm", "reboot_vm"}

\* a verb calls _proxmox_request: the loop starts with attempt 0
GwCall(verb) ==
  /\ gwPc' = "send"
  /\ gwVerb' = verb
  /\ attempt' = 0
  /\ responses' = <<>>
  /\ waits' = <<>>
  /\ gwOut' = "none"
  /\ task' = "none"

\* one pass of the loop body up to its next await: the request is sent and
\* answered. 200/201 returns the data. Everything else ends in the except
\* clause, the 502 raised for a non-retried status included (HTTPException is
\* an Exception): it sleeps 2 ** attempt unless this was the last attempt,
\* and then raises 503. A 5xx before the last attempt sleeps the same time
\* from its own branch.
GwSend ==
  /\ gwPc = "send"
  /\ \E r \in ResponseSet :
       /\ responses' = Append(responses, r)
       /\ IF Succeeded(r)
            THEN /\ gwPc' = "returned"
                 /\ gwOut' = r.data
                 /\ task' = "running"
                 /\ UNCHANGED waits
            ELSE IF attempt < RetryCount - 1
              THEN /\ gwPc' = "sleep"
                   /\ waits' = Append(waits, BackoffWait(attempt))
                   /\ UNCHANGED <<gwOut, task>>
              ELSE /\ gwPc' = "raised"
                   /\ gwOut' = "503"
                   /\ UNCHANGED <<waits, task>>
  /\ UNCHANGED <<lcVars, bgVars, storeVars, now, procVars, issued, loaded, gwVerb, attempt>>

\* the sleep is over: the next iteration of the loop
GwWake ==
  /\ gwPc = "sleep"
  /\ gwPc' = "send"
  /\ attempt' = attempt + 1
  /\ UNCHANGED <<lcVars, bgVars, storeVars, now, procVars, issued, loaded, gwVerb, responses,
                 waits, gwOut, task>>

\* hypervisor side: the enqueued task reaches its terminal state, well or
\* not; nothing makes it do so
TaskFinish ==
  /\ task = "running"
  /\ task' \in {"ok", "error"}
  /\ UNCHANGED <<lcVars, bgVars, storeVars, now, procVars, issued, loaded, gwPc, gwVerb,
                 attempt, responses, waits, gwOut>>

(* ------------------ ProxmoxService.start_vm, shutdown_vm, reboot_vm, ... *)
\* each verb awaits _proxmox_request and returns True; an exception of
\* _proxmox_request passes through
BeginVerb(p) ==
  /\ \E v \in Verbs : GwCall(v)
  /\ pc[p] = "idle"
  /\ pc' = [pc EXCEPT ![p] = "v_call"]
  /\ op' = [op EXCEPT ![p] = "verb"]
  /\ remote' = [remote EXCEPT ![p] = TRUE]
  /\ UNCHANGED <<lcVars, bgVars, storeVars, now, user, target, new_vmid, allocated_ip, vm,
                 result, issued, loaded>>

VerbReturn(p) ==
  /\ pc[p] = "v_call"
  /\ gwPc \in {"returned", "raised"}
  /\ Return(p, IF gwPc = "returned" THEN 200 ELSE 503)
  /\ UNCHANGED <<lcVars, bgVars, storeVars, now, op, user, target, new_vmid, allocated_ip, vm,
                 remote, issued, gwVars>>

(* ------------------------------------------------- VMService.start_vm *)
BeginStart(p) ==
  \E u \in MainUsers, t \in 1..(Len(vms) + 1) : Begin(p, "start", u, t, "s_get")

\* _get_user_vm, the check on RUNNING, then the call of proxmox.start_vm
StartGet(p) ==
  /\ pc[p] = "s_get"
  /\ LET code == GetUserVm(p) IN
       IF code # 0 \/ vms[target[p]].vm_status = "running"
         THEN /\ Return(p, IF code # 0 THEN code ELSE 400)
              /\ UNCHANGED <<vm, remote, gwVars>>
         ELSE /\ vm' = [vm EXCEPT ![p] = target[p]]
              /\ loaded' = vms[target[p]]
              /\ remote' = [remote EXCEPT ![p] = TRUE]
              /\ GwCall("start_vm")
              /\ Goto(p, "s_call")
              /\ UNCHANGED result
  /\ UNCHANGED <<lcVars, bgVars, storeVars, now, op, user, target, new_vmid, allocated_ip,
                 issued>>

StartRuntimeElevenHours == 11 * 60

\* timedelta(hours=12), in minutes
StartRuntimeMinutes == 12 * 60

\* proxmox.start_vm returned: RUNNING, runtime_expires_at = now + 12h,
\* last_active_at = now, commit
StartCommit(p) ==
  /\ pc[p] = "s_call"
  /\ gwPc = "returned"
  /\ vms' = [vms EXCEPT ![vm[p]].vm_status = "running",
                        ![vm[p]].runtime_expires_at = now + StartRuntimeMinutes,
                        ![vm[p]].last_active_at = now]
  /\ Return(p, 200)
  /\ UNCHANGED <<lcVars, bgVars, next_id, seqLock, ipStatus, ipLock, now, op, user, target,
                 new_vmid, allocated_ip, vm, remote, issued, gwVars>>

\* proxmox.start_vm raised: the HTTPException goes to the caller
StartRaised(p) ==
  /\ pc[p] = "s_call"
  /\ gwPc = "raised"
  /\ Return(p, 503)
  /\ UNCHANGED <<lcVars, bgVars, storeVars, now, op, user, target, new_vmid, allocated_ip, vm,
                 remote, issued, gwVars>>

StartVM(p) ==
  \/ StartGet(p)
  \/ StartCommit(p)
  \/ StartRaised(p)

\* the store at the start: one row as create_vm, stop_vm, reset_vm and
\* delete_vm leave it (status, runtime_expires_at, last_active_at), its
\* address Allocated unless the row is Deleted
GatewayRowStamps ==
  {<<"created", NoTime, NoTime>>, <<"provisioning", NoTime, NoTime>>,
   <<"failed", NoTime, NoTime>>, <<"ready", DefaultTimeoutMinutes, 0>>,
   <<"ready", NoTime, 0>>, <<"running", DefaultTimeoutMinutes, 0>>,
   <<"stopped", NoTime, 0>>, <<"deleted", NoTime, NoTime>>,
   <<"deleted", NoTime, 0>>}

GatewayRows ==
  {[user_id |-> "u1", proxmox_vm_id |-> FirstVmid, vm_status |-> s[1],
    ip_address |-> 1, runtime_expires_at |-> s[2], last_active_at |-> s[3]] :
     s \in GatewayRowStamps}

InitGateway ==
  /\ next_id = FirstVmid + 1
  /\ seqLock = NoProc
  /\ ipLock = [i \in IPs |-> NoProc]
  /\ \E row \in GatewayRows :
       /\ vms = <<row>>
       /\ ipStatus = [i \in IPs |->
                        IF i = 1 /\ row.vm_status # "deleted" THEN "allocated"
                                                             ELSE "free"]
  /\ now = 0
  /\ issued = [v \in FirstVmid..(FirstVmid + Cardinality(Procs)) |->
                 IF v = FirstVmid THEN 1 ELSE 0]
  /\ InitProcs
  /\ InitGw
  /\ CallsOff
  /\ InitIdle

NextGateway ==
  \/ BeginStart(1)
  \/ BeginVerb(1)
  \/ StartVM(1)
  \/ VerbReturn(1)
  \/ GwSend
  \/ GwWake
  \/ TaskFinish
  \/ Tick

SpecGateway == InitGateway /\ [][NextGateway]_vars

(* ---------------------------------------------- VMService.get_user_vm *)
BeginGet(p) ==
  \E u \in MainUsers, t \in 1..(Len(vms) + 1) : Begin(p, "get", u, t, "g_get")

GetVM(p) ==
  /\ pc[p] = "g_get"
  /\ LET code == GetUserVm(p) IN
       IF code # 0
         THEN Return(p, code) /\ UNCHANGED vm
         ELSE vm' = [vm EXCEPT ![p] = target[p]] /\ Return(p, 200)
  /\ UNCHANGED <<lcVars, bgVars, gwVars, storeVars, now, op, user, target, new_vmid,
                 allocated_ip, remote, issued>>

(* -------------------------------------------------- VMService.stop_vm *)
BeginStop(p) ==
  \E u \in MainUsers, t \in 1..(Len(vms) + 1) : Begin(p, "stop", u, t, "t_get")

StopGet(p) ==
  /\ pc[p] = "t_get"
  /\ LoadVm(p, "t_call")
  /\ UNCHANGED <<lcVars, bgVars, gwVars, storeVars, now, op, user, target, new_vmid,
                 allocated_ip, remote, issued>>

\* proxmox.shutdown_vm: returns, or _proxmox_request raises 503
StopCall(p, outcomes) ==
  /\ pc[p] = "t_call"
  /\ remote' = [remote EXCEPT ![p] = TRUE]
  /\ \E o \in outcomes :
       /\ Call(p, "shutdown_vm", o)
       /\ IF o = "ok" THEN Goto(p, "t_commit") /\ UNCHANGED result
                      ELSE Return(p, 503)
  /\ UNCHANGED <<argVars, bgVars, gwVars, storeVars, now, op, user, target, new_vmid,
                 allocated_ip, vm, issued>>

\* STOPPED, runtime_expires_at = None, last_active_at = now; commit
StopCommit(p) ==
  /\ pc[p] = "t_commit"
  /\ vms' = [vms EXCEPT ![vm[p]].vm_status = "stopped",
                        ![vm[p]].runtime_expires_at = NoTime,
                        ![vm[p]].last_active_at = now]
  /\ Return(p, 200)
  /\ UNCHANGED <<lcVars, bgVars, gwVars, next_id, seqLock, ipStatus, ipLock, now, op,
                 user, target, new_vmid, allocated_ip, vm, remote, issued>>

StopVM(p, outcomes) ==
  \/ StopGet(p)
  \/ StopCall(p, outcomes)
  \/ StopCommit(p)

(* ------------------------------------------------ VMService.reboot_vm *)
BeginReboot(p) ==
  \E u \in MainUsers, t \in 1..(Len(vms) + 1) : Begin(p, "reboot", u, t, "b_get")

\* _get_user_vm, then 400 unless the record is RUNNING
RebootGet(p) ==
  /\ pc[p] = "b_get"
  /\ LET code == GetUserVm(p) IN
       IF code # 0 \/ vms[target[p]].vm_status # "running"
         THEN Return(p, IF code # 0 THEN code ELSE 400) /\ UNCHANGED vm
         ELSE /\ vm' = [vm EXCEPT ![p] = target[p]]
              /\ Goto(p, "b_call")
              /\ UNCHANGED result
  /\ UNCHANGED <<lcVars, bgVars, gwVars, storeVars, now, op, user, target, new_vmid,
                 allocated_ip, remote, issued>>

RebootCall(p, outcomes) ==
  /\ pc[p] = "b_call"
  /\ remote' = [remote EXCEPT ![p] = TRUE]
  /\ \E o \in outcomes :
       /\ Call(p, "reboot_vm", o)
       /\ IF o = "ok" THEN Goto(p, "b_commit") /\ UNCHANGED result
                      ELSE Return(p, 503)
  /\ UNCHANGED <<argVars, bgVars, gwVars, storeVars, now, op, user, target, new_vmid,
                 allocated_ip, vm, issued>>

\* last_active_at = now; commit
RebootCommit(p) ==
  /\ pc[p] = "b_commit"
  /\ vms' = [vms EXCEPT ![vm[p]].last_active_at = now]
  /\ Return(p, 200)
  /\ UNCHANGED <<lcVars, bgVars, gwVars, next_id, seqLock, ipStatus, ipLock, now, op,
                 user, target, new_vmid, allocated_ip, vm, remote, issued>>

RebootVM(p, outcomes) ==
  \/ RebootGet(p)
  \/ RebootCall(p, outcomes)
  \/ RebootCommit(p)

(* ---------------------------------------------- VMService.extend_time *)
ExtendMinutes == {4, 5, 10, 60, 61}

BeginExtend(p) ==
  \E u \in MainUsers, t \in 1..(Len(vms) + 1), m \in ExtendMinutes :
    BeginWith(p, "extend", u, t, "x_get", m)

MinutesInRangeNoFloor(m) == m <= 60

\* not (extension_minutes < 5 or extension_minutes > 60)
MinutesInRange(m) == m >= 5 /\ m <= 60

ExtendedExpiryOneMore(T, m) == T + m + 1

\* vm.runtime_expires_at + timedelta(minutes=extension_minutes)
ExtendedExpiry(T, m) == T + m

\* datetime.utcnow() + timedelta(hours=12)
MaxRuntime == now + 12 * 60

\* the range check, then _get_user_vm, then the check on RUNNING, then the
\* 12 hour limit; the new expiry is kept for the commit
ExtendGet(p) ==
  /\ pc[p] = "x_get"
  /\ IF ~MinutesInRange(extension_minutes[p])
       THEN Return(p, 400) /\ UNCHANGED <<vm, new_expiry>>
       ELSE LET code == GetUserVm(p) IN
         IF code # 0
           THEN Return(p, code) /\ UNCHANGED <<vm, new_expiry>>
           ELSE LET row == vms[target[p]]
                    new == ExtendedExpiry(row.runtime_expires_at, extension_minutes[p])
                IN IF row.vm_status # "running" \/ new > MaxRuntime
                     THEN Return(p, 400) /\ UNCHANGED <<vm, new_expiry>>
                     ELSE /\ vm' = [vm EXCEPT ![p] = target[p]]
                          /\ new_expiry' = [new_expiry EXCEPT ![p] = new]
                          /\ Goto(p, "x_commit")
                          /\ UNCHANGED result
  /\ UNCHANGED <<extension_minutes, calls, bgVars, gwVars, storeVars, now, op, user,
                 target, new_vmid, allocated_ip, remote, issued>>

\* runtime_expires_at = new_expiry, last_active_at = now; commit
ExtendCommit(p) ==
  /\ pc[p] = "x_commit"
  /\ vms' = [vms EXCEPT ![vm[p]].runtime_expires_at = new_expiry[p],
                        ![vm[p]].last_active_at = now]
  /\ Return(p, 200)
  /\ UNCHANGED <<lcVars, bgVars, gwVars, next_id, seqLock, ipStatus, ipLock, now, op,
                 user, target, new_vmid, allocated_ip, vm, remote, issued>>

ExtendTime(p) ==
  \/ ExtendGet(p)
  \/ ExtendCommit(p)

(* ---------------------------------------------- VMService.get_vnc_url *)
BeginVnc(p) ==
  \E u \in MainUsers, t \in 1..(Len(vms) + 1) : Begin(p, "vnc", u, t, "n_get")

VncGet(p) ==
  /\ pc[p] = "n_get"
  /\ LET code == GetUserVm(p) IN
       IF code # 0 \/ vms[target[p]].vm_status # "running"
         THEN Return(p, IF code # 0 THEN code ELSE 400) /\ UNCHANGED vm
         ELSE /\ vm' = [vm EXCEPT ![p] = target[p]]
              /\ Goto(p, "n_call")
              /\ UNCHANGED result
  /\ UNCHANGED <<lcVars, bgVars, gwVars, storeVars, now, op, user, target, new_vmid,
                 allocated_ip, remote, issued>>

\* proxmox.get_vnc_url: the URL, or _proxmox_request raises 503
VncCall(p, outcomes) ==
  /\ pc[p] = "n_call"
  /\ remote' = [remote EXCEPT ![p] = TRUE]
  /\ \E o \in outcomes :
       /\ Call(p, "get_vnc_url", o)
       /\ Return(p, IF o = "ok" THEN 200 ELSE 503)
  /\ UNCHANGED <<argVars, bgVars, gwVars, storeVars, now, op, user, target, new_vmid,
                 allocated_ip, vm, issued>>

GetVncUrl(p, outcomes) ==
  \/ VncGet(p)
  \/ VncCall(p, outcomes)

(* ------------------------------- lifecycle calls on an existing record *)
\* two requests, one after the other or overlapping
LifecycleProcs == {1, 2}

NextLifecycle ==
  \/ \E p \in LifecycleProcs :
       \/ BeginGet(p)
       \/ BeginStop(p)
       \/ BeginReboot(p)
       \/ BeginExtend(p)
       \/ BeginVnc(p)
       \/ BeginDelete(p)
       \/ GetVM(p)
       \/ StopVM(p, RemoteOutcomes)
       \/ RebootVM(p, RemoteOutcomes)
       \/ ExtendTime(p)
       \/ GetVncUrl(p, RemoteOutcomes)
       \/ DeleteVM(p, RemoteOutcomes)
  \/ Tick

SpecLifecycle == InitGateway /\ [][NextLifecycle]_vars

(* ------------------------------------------------- VMMonitoringService *)
\* monitor_vm_migrations and monitor_vm_status_continuous: two coroutines,
\* each with a session of its own
Loops == {"migrations", "status"}

\* VM.vm_status.in_([RUNNING, STOPPED, CREATED, READY])
TrackedStatuses == {"running", "stopped", "created", "ready"}

\* settings.PROXMOX_NODE, the node ProxmoxService sends its requests to
PROXMOX_NODE == "pve"

NoNode == "none"

\* the VM is on no node of the cluster
Lost == [node |-> NoNode, status |-> "none"]

\* the cluster does not answer for the VM in time
Slow == [node |-> NoNode, status |-> "slow"]

\* what the cluster can hold for the VM of one record
Reports ==
  {[node |-> PROXMOX_NODE, status |-> s] : s \in {"running", "stopped", "paused"}}
    \cup {[node |-> "pve2", status |-> "running"], Lost, Slow}

\* the cluster at the start: any report for the first VM, the second VM
\* stopped on the node of the service or running on another node
InitialClusters ==
  {<<r, q>> : r \in Reports,
              q \in {[node |-> PROXMOX_NODE, status |-> "stopped"],
                     [node |-> "pve2", status |-> "running"]}}

\* the rows of users_vms at the start, as the operations leave them
MonitorRowStamps ==
  {<<"created", NoTime, NoTime>>, <<"ready", DefaultTimeoutMinutes, 0>>,
   <<"running", DefaultTimeoutMinutes, 0>>, <<"stopped", NoTime, 0>>,
   <<"failed", NoTime, NoTime>>, <<"deleted", NoTime, 0>>}

\* two records at the start: the first one in a status the loops select,
\* the second one Running, Failed or Deleted
InitialStamps ==
  {<<s, t>> : s \in {x \in MonitorRowStamps : x[1] \in TrackedStatuses},
              t \in {x \in MonitorRowStamps : x[1] \in {"running", "failed", "deleted"}}}

MonitorRow(i, s) ==
  [user_id |-> "u1", proxmox_vm_id |-> FirstVmid + i - 1, vm_status |-> s[1],
   ip_address |-> i, runtime_expires_at |-> s[2], last_active_at |-> s[3]]

\* the columns of the mapped class VM: there is no column node
HasNodeColumn(row) == "node" \in DOMAIN row

\* vm.node as a reader of the record sees it
RecordNode(row) == IF HasNodeColumn(row) THEN row.node ELSE NoNode

LoopIdle ==
  [pc |-> "load", vms |-> <<>>, i |-> 1, expired |-> FALSE, checked |-> {},
   view |-> vms, base |-> <<>>, clean |-> TRUE, runs |-> 0]

InitMonitor ==
  /\ next_id = FirstVmid + 2
  /\ seqLock = NoProc
  /\ ipLock = [i \in IPs |-> NoProc]
  /\ \E s \in InitialStamps :
       /\ vms = <<MonitorRow(1, s[1]), MonitorRow(2, s[2])>>
       /\ ipStatus = [i \in IPs |-> IF i <= 2 /\ s[i][1] # "deleted"
                                      THEN "allocated" ELSE "free"]
  /\ now = 0
  /\ issued = [v \in FirstVmid..(FirstVmid + Cardinality(Procs)) |->
                 IF v < FirstVmid + 2 THEN 1 ELSE 0]
  /\ InitProcs
  /\ InitGw
  /\ CallsOff
  /\ cluster \in InitialClusters
  /\ mon = [l \in Loops |-> LoopIdle]
  /\ alerts = <<0, 0>>
  /\ node_status = <<>>
  /\ best_node = "none"
  /\ wait = <<>>

\* the rows the select of a cycle returns
Tracked == {i \in VmIds : vms[i].vm_status \in TrackedStatuses}

\* the select has no ORDER BY: the rows come in some order
LoadOrders ==
  {o \in [1..Cardinality(Tracked) -> Tracked] :
     \A j, k \in DOMAIN o : j # k => o[j] # o[k]}

\* the history fields of loop l after a step of the loop that leaves it with
\* the fields rec; ends: the step is the last one of the cycle. A cycle is
\* clean when nobody else wrote a row while it ran; base is the store as the
\* last clean cycle left it, as long as nobody else has written since
Observed(l, rec, ends) ==
  LET undisturbed == vms = mon[l].view
      clean == rec.clean /\ undisturbed
      base == IF undisturbed THEN mon[l].base ELSE <<>>
  IN [rec EXCEPT
        !.view = vms',
        !.clean = clean,
        !.base = IF ~ends THEN base
                 ELSE IF clean THEN << [vms |-> vms', alerts |-> alerts'] >>
                 ELSE <<>>,
        !.runs = IF ~ends THEN (IF undisturbed THEN @ ELSE 0)
                 ELSE IF ~clean THEN 0
                 ELSE IF base # <<>> THEN 2 ELSE 1]

\* 1. the select of the cycle: the rows become the objects of the session
MonitorLoad(l) ==
  /\ mon[l].pc = "load"
  /\ UNCHANGED <<lcVars, cluster, alerts, node_status, best_node, wait, storeVars, now,
                 procVars, issued, gwVars>>
  /\ \E o \in LoadOrders :
       LET rows == [k \in DOMAIN o |-> [id |-> o[k], vm_status |-> vms[o[k]].vm_status]]
           ends == rows = <<>>
       IN mon' = [mon EXCEPT ![l] =
                    Observed(l, [@ EXCEPT !.pc = IF ends THEN "sleep" ELSE "each",
                                          !.vms = rows, !.i = 1,
                                          !.expired = FALSE, !.checked = {},
                                          !.clean = TRUE], ends)]

\* the loop variable moves on; after the last row the loop sleeps
Advance(rec) ==
  [rec EXCEPT !.i = @ + 1,
              !.pc = IF rec.i = Len(rec.vms) THEN "sleep" ELSE "each"]

\* monitor_vm_migrations, one pass of "for vm in vms".
\* The rows of a rolled back session are expired: reading vm.proxmox_vm_id
\* raises, the handler of the row raises again in its log line, and the
\* handler of the cycle rolls back and sleeps.
\* Otherwise get_vm_location asks node None and then every node: a timeout
\* goes on to the next row; a VM found nowhere raises 404, the handler of the
\* row rolls back; for a VM that is found the comparison reads vm.node, which
\* raises for a class without that column, and the handler rolls back. With
\* the column: a node that differs is written, the alert is sent, commit.
MigrationCheck ==
  LET l == "migrations"
      rec == mon[l]
      e == rec.vms[rec.i]
      r == cluster[e.id]
      row == vms[e.id]
  IN /\ rec.pc = "each"
     /\ IF rec.expired
          THEN /\ UNCHANGED <<vms, alerts>>
               /\ mon' = [mon EXCEPT ![l] =
                            Observed(l, [rec EXCEPT !.pc = "sleep"], TRUE)]
          ELSE IF r = Slow
            THEN /\ UNCHANGED <<vms, alerts>>
                 /\ mon' = [mon EXCEPT ![l] =
                              Observed(l, Advance([rec EXCEPT !.checked = @ \cup {e.id}]),
                                       rec.i = Len(rec.vms))]
          ELSE IF r = Lost \/ ~HasNodeColumn(row)
            THEN /\ UNCHANGED <<vms, alerts>>
                 /\ mon' = [mon EXCEPT ![l] =
                              Observed(l, Advance([rec EXCEPT !.checked = @ \cup {e.id},
                                                              !.expired = TRUE]),
                                       rec.i = Len(rec.vms))]
          ELSE /\ IF r.node # row.node
                    THEN /\ vms' = [vms EXCEPT ![e.id].node = r.node]
                         /\ alerts' = [alerts EXCEPT ![e.id] = @ + 1]
                    ELSE UNCHANGED <<vms, alerts>>
               /\ mon' = [mon EXCEPT ![l] =
                            Observed(l, Advance([rec EXCEPT !.checked = @ \cup {e.id}]),
                                     rec.i = Len(rec.vms))]
     /\ UNCHANGED <<lcVars, cluster, node_status, best_node, wait, next_id, seqLock,
                    ipStatus, ipLock, now, procVars, issued, gwVars>>

ReconciledStatusToggle(proxmox_status, current) ==
  IF proxmox_status = "running" THEN "running"
  ELSE IF proxmox_status = "stopped" THEN "stopped"
  ELSE IF current = "ready" THEN "created" ELSE "ready"

\* if proxmox_status == "running": RUNNING; elif "stopped": STOPPED; any
\* other value leaves vm_status as the object holds it
ReconciledStatus(proxmox_status, current) ==
  IF proxmox_status = "running" THEN "running"
  ELSE IF proxmox_status = "stopped" THEN "stopped"
  ELSE current

\* monitor_vm_status_continuous, one pass of "for vm in vms".
\* get_vm_status asks PROXMOX_NODE; when the VM is not there or the cluster
\* does not answer, _proxmox_request raises and the handler goes on to the
\* next row. A status that differs from the one the object was loaded with
\* is written and committed: UPDATE users_vms SET vm_status WHERE id.
StatusCheck ==
  LET l == "status"
      rec == mon[l]
      e == rec.vms[rec.i]
      r == cluster[e.id]
      new == ReconciledStatus(r.status, e.vm_status)
  IN /\ rec.pc = "each"
     /\ IF r.node = PROXMOX_NODE /\ new # e.vm_status
          THEN SetStatus(e.id, new)
          ELSE UNCHANGED vms
     /\ UNCHANGED alerts
     /\ mon' = [mon EXCEPT ![l] =
                  Observed(l, Advance([rec EXCEPT !.checked = @ \cup {e.id}]),
                           rec.i = Len(rec.vms))]
     /\ UNCHANGED <<lcVars, cluster, node_status, best_node, wait, next_id,
                    seqLock, ipStatus, ipLock, now, procVars, issued, gwVars>>

\* asyncio.sleep is over: while True
MonitorWake(l) ==
  /\ mon[l].pc = "sleep"
  /\ mon' = [mon EXCEPT ![l].pc = "load"]
  /\ UNCHANGED <<lcVars, cluster, alerts, node_status, best_node, wait, storeVars, now,
                 procVars, issued, gwVars>>

\* the owner of the first record deletes it while the loops run
BeginMonitorDelete(p) ==
  Begin(p, "delete", vms[1].user_id, 1, "d_get")

\* the remote destroy of the deletion fails: the cluster keeps the VM
NextMonitor ==
  \/ \E l \in Loops : MonitorLoad(l)
  \/ MigrationCheck
  \/ StatusCheck
  \/ \E l \in Loops : MonitorWake(l)
  \/ BeginMonitorDelete(1)
  \/ DeleteVM(1, {"fail"})

SpecMonitor == InitMonitor /\ [][NextMonitor]_vars

\* the loops alone; each is "while True" around a cycle and a sleep, so
\* each goes on for ever
NextReconcile ==
  \/ \E l \in Loops : MonitorLoad(l)
  \/ MigrationCheck
  \/ StatusCheck
  \/ \E l \in Loops : MonitorWake(l)

SpecReconcile ==
  /\ InitMonitor
  /\ [][NextReconcile]_vars
  /\ \A l \in Loops : WF_vars(MonitorLoad(l) \/ MonitorWake(l))
  /\ WF_vars(MigrationCheck)
  /\ WF_vars(StatusCheck)

(* ------------------------------------------------ LoadBalancingService *)
\* settings.PROXMOX_NODES
PROXMOX_NODES == <<"pve", "pve2", "pve3">>

PROXMOX_PRIMARY_NODE == "pve"

LOAD_BALANCING_ENABLED == TRUE

CPU_THRESHOLD_PERCENT == 80

MEMORY_THRESHOLD_PERCENT == 80

\* what proxmox.nodes(name).status.get() can do for one node: raise, or
\* return a dict; cpu is the fraction of the CPU in use, in hundredths
NodeAnswers ==
  {[answers |-> FALSE, status |-> "none", cpu |-> 0, memory |-> 0, maxmemory |-> 0],
   [answers |-> TRUE, status |-> "online", cpu |-> 10, memory |-> 0, maxmemory |-> 0]}
    \cup [answers : {TRUE}, status : {"online", "unknown"}, cpu : {10, 50, 80},
          memory : {2, 7, 8}, maxmemory : {10}]

InitBalance ==
  /\ InitStore
  /\ InitProcs
  /\ InitGw
  /\ CallsOff
  /\ cluster = <<>>
  /\ mon = <<>>
  /\ alerts = <<>>
  /\ node_status \in [DOMAIN PROXMOX_NODES -> NodeAnswers]
  /\ best_node = "none"
  /\ wait = <<>>

\* the entry of nodes_stats for one node: the percentages of an answer, or
\* the entry of a node that is taken as offline and full
NodeLoad(name, a) ==
  IF a.answers
    THEN [node |-> name, status |-> a.status,
          cpu_percent |-> (a.cpu * 100) \div 100,
          memory_percent |-> IF a.maxmemory > 0
                               THEN (a.memory * 100) \div a.maxmemory ELSE 0]
    ELSE [node |-> name, status |-> "offline", cpu_percent |-> 100,
          memory_percent |-> 100]

LoadKeyCpuOnly(n) == n.cpu_percent

\* key=lambda x: (x['cpu_percent'] + x['memory_percent']) / 2, taken twice,
\* which is the key of the second sort and orders alike
LoadKey(n) == n.cpu_percent + n.memory_percent

\* x put into the sorted list s behind every entry whose key is not larger
InsertByLoad(x, s) ==
  LET k == Cardinality({j \in DOMAIN s : LoadKey(s[j]) <= LoadKey(x)})
  IN SubSeq(s, 1, k) \o <<x>> \o SubSeq(s, k + 1, Len(s))

RECURSIVE SortedByLoad(_)
\* sorted(s, key=...): stable, entries of one key keep their order
SortedByLoad(s) ==
  IF s = <<>> THEN <<>>
  ELSE InsertByLoad(s[Len(s)], SortedByLoad(SubSeq(s, 1, Len(s) - 1)))

\* get_all_nodes_load for the answers st
AllNodesLoad(st) ==
  SortedByLoad([k \in DOMAIN PROXMOX_NODES |-> NodeLoad(PROXMOX_NODES[k], st[k])])

IsOnline(n) == n.status = "online"

\* the filter of available_nodes
BelowThresholds(n) ==
  /\ n.cpu_percent < CPU_THRESHOLD_PERCENT
  /\ n.memory_percent < MEMORY_THRESHOLD_PERCENT
  /\ IsOnline(n)

\* what select_best_node returns for the answers st; "503" is the
\* HTTPException of a cluster without an online node
BestNode(st) ==
  LET nodes_stats == AllNodesLoad(st)
      below == SelectSeq(nodes_stats, BelowThresholds)
      available_nodes == IF below # <<>> THEN below
                         ELSE SortedByLoad(SelectSeq(nodes_stats, IsOnline))
  IN IF ~LOAD_BALANCING_ENABLED \/ nodes_stats = <<>> THEN PROXMOX_PRIMARY_NODE
     ELSE IF available_nodes = <<>> THEN "503"
     ELSE available_nodes[1].node

SelectBestNode ==
  /\ best_node = "none"
  /\ best_node' = BestNode(node_status)
  /\ UNCHANGED <<lcVars, cluster, mon, alerts, node_status, wait, storeVars, now,
                 procVars, issued, gwVars>>

NextBalance == SelectBestNode

SpecBalance == InitBalance /\ [][NextBalance]_vars

(* ------------------------------------- VMService.cleanup_inactive_vms *)
\* the clock of the long run advances a week at a time
WeekMinutes == 7 * 24 * 60

\* the weeks the clock counts before it keeps the last MaxWeeks weeks in
\* view only
MaxWeeks == 3

VM_AUTO_DELETE_DAYS == 14

\* timedelta(days=settings.VM_AUTO_DELETE_DAYS), in minutes
AutoDeleteMinutes == VM_AUTO_DELETE_DAYS * 24 * 60

\* one record as start_vm left it at time 0
InitExpiry ==
  /\ next_id = FirstVmid + 1
  /\ seqLock = NoProc
  /\ ipLock = [i \in IPs |-> NoProc]
  /\ vms = << [user_id |-> "u1", proxmox_vm_id |-> FirstVmid,
               vm_status |-> "running", ip_address |-> 1,
               runtime_expires_at |-> StartRuntimeMinutes,
               last_active_at |-> 0] >>
  /\ ipStatus = [i \in IPs |-> IF i = 1 THEN "allocated" ELSE "free"]
  /\ now = 0
  /\ issued = [v \in FirstVmid..(FirstVmid + Cardinality(Procs)) |->
                 IF v = FirstVmid THEN 1 ELSE 0]
  /\ InitProcs
  /\ InitGw
  /\ CallsOff
  /\ InitIdle

\* a timestamp seen a week later, once the clock keeps its value: what is
\* older than the weeks in view counts as the oldest time in view
WeekLater(t) ==
  IF t = NoTime THEN NoTime
  ELSE IF t >= WeekMinutes THEN t - WeekMinutes ELSE 0

\* a week passes
Pass ==
  /\ IF now < MaxWeeks * WeekMinutes
       THEN /\ now' = now + WeekMinutes
            /\ UNCHANGED vms
       ELSE /\ UNCHANGED now
            /\ vms' = [i \in VmIds |->
                         [vms[i] EXCEPT !.runtime_expires_at = WeekLater(@),
                                        !.last_active_at = WeekLater(@)]]
  /\ UNCHANGED <<lcVars, bgVars, next_id, seqLock, ipStatus, ipLock, procVars,
                 issued, gwVars>>

\* a request or a run of the job starts in a slot whose last one is over
Arrive(p, o, t, first) ==
  /\ pc[p] \in {"idle", "done"}
  /\ pc' = [pc EXCEPT ![p] = first]
  /\ op' = [op EXCEPT ![p] = o]
  /\ user' = [user EXCEPT ![p] = vms[t].user_id]
  /\ target' = [target EXCEPT ![p] = t]
  /\ vm' = [vm EXCEPT ![p] = NoVm]
  /\ result' = [result EXCEPT ![p] = 0]
  /\ remote' = [remote EXCEPT ![p] = FALSE]
  /\ UNCHANGED <<lcVars, bgVars, gwVars, storeVars, now, new_vmid, allocated_ip,
                 issued>>

\* the owner reboots the VM
ArriveReboot(p) == \E t \in VmIds : Arrive(p, "reboot", t, "b_get")

\* (VM.last_active_at < cutoff_date) & (VM.vm_status != DELETED)
Inactive(row) ==
  /\ row.last_active_at # NoTime
  /\ row.last_active_at < now - AutoDeleteMinutes
  /\ row.vm_status # "deleted"

\* cleanup_inactive_vms: delete_vm(vm.id, vm.user_id, db) for a record the
\* select returned
ArriveCleanup(p) ==
  \E t \in VmIds : Inactive(vms[t]) /\ Arrive(p, "delete", t, "d_get")

CleanupInactiveVms(p) == ArriveCleanup(p) \/ DeleteVM(p, RemoteOutcomes)

NextExpiry ==
  \/ Pass
  \/ ArriveReboot(1)
  \/ RebootVM(1, RemoteOutcomes)
  \/ CleanupInactiveVms(2)

\* time passes, a request that has started goes on, and the job runs
\* whenever it has a record to delete; nobody has to send a request
SpecExpiry ==
  /\ InitExpiry
  /\ [][NextExpiry]_vars
  /\ WF_vars(Pass)
  /\ WF_vars(RebootVM(1, RemoteOutcomes))
  /\ WF_vars(CleanupInactiveVms(2))

(* ------------------------------------------- _wait_for_proxmox_task *)
\* the polls that fit into the timeout of the wait
MaxTaskPolls == 3

\* texts are lists of words
HasNotFound(text) ==
  \E k \in 1..(Len(text) - 1) : text[k] = "not" /\ text[k + 1] = "found"

\* what proxmox.nodes(node).tasks(task_id).status.get() can do at one poll:
\* return the status of the task, with the exit status of a stopped one, or
\* raise with a message
TaskAnswers ==
  {[raises |-> FALSE, status |-> "running", text |-> <<>>]}
    \cup [raises : {FALSE}, status : {"stopped"},
          text : {<<"OK">>, <<"command", "failed">>, <<"volume", "not", "found">>}]
    \cup [raises : {TRUE}, status : {"none"},
          text : {<<"task", "not", "found">>, <<"connection", "refused">>}]

InitTaskWait ==
  /\ InitStore
  /\ InitProcs
  /\ InitGw
  /\ CallsOff
  /\ cluster = <<>>
  /\ mon = <<>>
  /\ alerts = <<>>
  /\ node_status = <<>>
  /\ best_node = "none"
  /\ \E answers \in [1..MaxTaskPolls -> TaskAnswers] :
       wait = [answers |-> answers, polls |-> 0, out |-> "none"]

\* how one pass of the loop ends for the answer a: "sleep" goes on to the
\* next pass. A stopped task whose exit status is not OK raises inside the
\* try block, so that the handler sees the message "Task failed: ..." like
\* the message of a failed request, and returns True when the words
\* "not found" are in it
PollOutcome(a) ==
  LET message == IF a.raises THEN a.text ELSE <<"Task", "failed:">> \o a.text
  IN IF ~a.raises /\ a.status # "stopped" THEN "sleep"
     ELSE IF ~a.raises /\ a.text = <<"OK">> THEN "true"
     ELSE IF HasNotFound(message) THEN "true"
     ELSE "error"

\* one pass of "while time.time() - start < timeout"
TaskPoll ==
  /\ wait.out = "none"
  /\ wait.polls < MaxTaskPolls
  /\ LET o == PollOutcome(wait.answers[wait.polls + 1])
     IN wait' = [wait EXCEPT !.polls = @ + 1,
                             !.out = IF o = "sleep" THEN "none" ELSE o]
  /\ UNCHANGED <<lcVars, cluster, mon, alerts, node_status, best_node, storeVars,
                 now, procVars, issued, gwVars>>

\* the time is up: raise TimeoutError
TaskTimeout ==
  /\ wait.out = "none"
  /\ wait.polls = MaxTaskPolls
  /\ wait' = [wait EXCEPT !.out = "timeout"]
  /\ UNCHANGED <<lcVars, cluster, mon, alerts, node_status, best_node, storeVars,
                 now, procVars, issued, gwVars>>

NextTaskWait == TaskPoll \/ TaskTimeout

SpecTaskWait == InitTaskWait /\ [][NextTaskWait]_vars

(* ------------------------- create_vm next to the status loop *)
\* an empty store with one address pool, the status loop idle, and the
\* VM of the first record not yet on any node
InitWatched ==
  /\ InitStore
  /\ InitProcs
  /\ InitGw
  /\ CallsOff
  /\ cluster = <<Lost>>
  /\ mon = [l \in Loops |-> LoopIdle]
  /\ alerts = <<0>>
  /\ node_status = <<>>
  /\ best_node = "none"
  /\ wait = <<>>

\* the hypervisor carries out a request of the pipeline before the call of
\* the pipeline returns: create_empty_vm leaves a stopped VM on the node of
\* the service, start_vm a running one
RemoteDone(p) ==
  /\ vm[p] # NoVm
  /\ \/ /\ pc[p] = "c_empty"
        /\ cluster[vm[p]] = Lost
        /\ cluster' = [cluster EXCEPT ![vm[p]] =
                         [node |-> PROXMOX_NODE, status |-> "stopped"]]
     \/ /\ pc[p] = "c_start"
        /\ cluster[vm[p]].status = "stopped"
        /\ cluster' = [cluster EXCEPT ![vm[p]] =
                         [node |-> PROXMOX_NODE, status |-> "running"]]
  /\ UNCHANGED <<lcVars, mon, alerts, node_status, best_node, wait, storeVars,
                 now, procVars, issued, gwVars>>

\* create_vm; a remote step succeeds only after the hypervisor did its part
WatchedCreate(p) ==
  \/ CreateCheck(p)
  \/ CreateLockSeq(p)
  \/ CreateSelectIP(p)
  \/ CreateCommit(p)
  \/ cluster[1] = Lost /\ CreateEmpty(p, {"fail"})
  \/ cluster[1] # Lost /\ CreateEmpty(p, {"ok"})
  \/ CreateImport(p, RemoteOutcomes)
  \/ CreateConfigure(p, RemoteOutcomes)
  \/ cluster[1].status = "stopped" /\ CreateStart(p, {"fail"})
  \/ cluster[1].status = "running" /\ CreateStart(p, {"ok"})
  \/ CreatePoll(p, PollOutcomes)
  \/ CreateAnsible(p, RemoteOutcomes)

NextWatched ==
  \/ BeginPipelineCreate(1)
  \/ WatchedCreate(1)
  \/ RemoteDone(1)
  \/ MonitorLoad("status")
  \/ StatusCheck
  \/ MonitorWake("status")

SpecWatched == InitWatched /\ [][NextWatched]_vars

(* ======================================================================== *)
(* Claims                                                                   *)
(* ======================================================================== *)
NotDeleted == {i \in VmIds : vms[i].vm_status # "deleted"}

PostCommit == {"c_empty", "c_import", "c_configure", "c_start", "c_poll", "c_ansible"}

\* C1: the VMID sequence never hands out the same identifier twice: no VMID
\* is read off the sequence by two allocations, whatever becomes of them, and
\* no two VM rows hold the same proxmox_vm_id.
C1_VmidNeverIssuedTwice ==
  /\ \A v \in DOMAIN issued : issued[v] <= 1
  /\ \A i, j \in VmIds : i # j => vms[i].proxmox_vm_id # vms[j].proxmox_vm_id

C4_AdmissionRejects ==
  [][\A p \in Procs :
       ( /\ pc[p] = "c_check"
         /\ pc'[p] # "c_check"
         /\ \E i \in NotDeleted : vms[i].user_id = user[p] )
       => /\ pc'[p] = "done"
          /\ result'[p] = RouteCreateFailed
          /\ ~remote'[p]
          /\ vm'[p] = NoVm
          /\ UNCHANGED <<next_id, seqLock, ipStatus, ipLock, vms, issued>>]_vars

\* a creation was turned away at the admission check while the user's row
\* is Ready
C4_Witness ==
  \E p \in Procs :
    /\ pc[p] = "done" /\ op[p] = "create" /\ result[p] = RouteCreateFailed
    /\ new_vmid[p] = 0 /\ ~remote[p]
    /\ \E i \in VmIds : vms[i].user_id = user[p] /\ vms[i].vm_status = "ready"

\* C5: when N creations of N distinct users on a pool with K <= N Free
\* addresses have all returned (remote side never failing), K of them
\* succeeded with distinct VMIDs and addresses, and each of the N-K others
\* failed as ResourceExhausted.
C5_BurstOutcome ==
  (\A p \in Procs : pc[p] = "done") =>
    LET K == Cardinality({i \in IPs : ipStatus[i] # "reserved"})
        ok == {p \in Procs : result[p] = RouteCreated}
    IN /\ Cardinality(ok) = K
       /\ \A p \in Procs \ ok : result[p] = ResourceExhausted
       /\ \A p, q \in ok : p # q =>
            /\ vms[vm[p]].proxmox_vm_id # vms[vm[q]].proxmox_vm_id
            /\ vms[vm[p]].ip_address # vms[vm[q]].ip_address

\* C6: VMID, address and row take effect together: a step of a creation
\* that consumes a VMID from the committed counter, or moves an address from
\* Free to Allocated, is the step that inserts the Created row holding that
\* VMID and that address; no other step of a creation (a failure included)
\* does either.
C6_AllocationAtomic ==
  [][\A p \in Procs :
       ( /\ op[p] \in {"create", "alloc"}
         /\ pc'[p] # pc[p]
         /\ \/ next_id' > next_id
            \/ \E i \in IPs : ipStatus[i] = "free" /\ ipStatus'[i] = "allocated" )
       => /\ Len(vms') = Len(vms) + 1
          /\ LET row == vms'[Len(vms')] IN
               /\ row.vm_status = "created"
               /\ row.proxmox_vm_id = next_id
               /\ next_id' = next_id + 1
               /\ ipStatus[row.ip_address] = "free"
               /\ ipStatus'[row.ip_address] = "allocated"]_vars
\* C7: a mutating Gateway call (configure, start, stop, reboot, ...) reports
\* success only after the hypervisor task it enqueued has reached its
\* terminal state with a successful result; the 200 of the enqueue request
\* alone never makes the call return success.
C7_SuccessOnlyAfterTask ==
  \A p \in Procs :
    (op[p] = "verb" /\ pc[p] = "done" /\ result[p] = 200) => task = "ok"

\* C8: when the task of a start has not reached its successful terminal state,
\* or the remote start call failed, the start operation has not succeeded and
\* the VM record keeps the state and the runtime expiry it had: it is never
\* marked Running without the confirmation of the remote side.
C8_StartKeepsRecordUntilConfirmed ==
  \A p \in Procs :
    (op[p] = "start" /\ vm[p] # NoVm /\ task # "ok") =>
      /\ vms[vm[p]].vm_status = loaded.vm_status
      /\ vms[vm[p]].runtime_expires_at = loaded.runtime_expires_at
      /\ ~(pc[p] = "done" /\ result[p] = 200)

ClientError(r) == r.status \in 400..499

\* C9: a Gateway request answered with a 4xx status is not retried: the 4xx
\* answer is the last request of the call, and the call fails with the 502 of
\* a rejected request, not with the 503 of an unavailable hypervisor.
C9_ClientErrorNotRetried ==
  \A i \in DOMAIN responses :
    ClientError(responses[i]) =>
      /\ Len(responses) = i
      /\ gwPc = "raised"
      /\ gwOut = "502"

AllFailed == \A i \in DOMAIN responses : ~Succeeded(responses[i])

\* C10: for any sequence of network failures and 5xx responses a Gateway
\* request makes at most 3 attempts, waits 1s after the first failed attempt
\* and 2s after the second and nothing after the last, sends nothing after a
\* success and returns the data of that first successful attempt, and fails
\* with 503 exactly when all 3 attempts failed.
C10_RetryPolicy ==
  (\A i \in DOMAIN responses : ~ClientError(responses[i])) =>
    /\ Len(responses) <= 3
    /\ \A i \in 1..(Len(responses) - 1) : ~Succeeded(responses[i])
    /\ Len(waits) <= 2
    /\ \A i \in DOMAIN waits : waits[i] = IF i = 1 THEN 1 ELSE 2
    /\ Len(waits) = IF gwPc \in {"returned", "raised"}
                      THEN Len(responses) - 1 ELSE Len(responses)
    /\ gwPc = "returned" <=> (responses # <<>> /\ ~AllFailed)
    /\ gwPc = "returned" => gwOut = responses[Len(responses)].data
    /\ gwPc = "raised" <=> (Len(responses) = 3 /\ AllFailed)
    /\ gwPc = "raised" => gwOut = "503"

C10_Witness ==
  /\ gwPc = "returned"
  /\ Len(responses) = 3
  /\ responses[1].status = 0
  /\ responses[2].status = 503
  /\ waits = <<1, 2>>
  /\ gwOut = "b"

CallNames(p) == [i \in DOMAIN calls[p] |-> calls[p][i][1]]

Called(p, name, o) == \E i \in DOMAIN calls[p] : calls[p][i] = <<name, o>>

LastCall(p) == calls[p][Len(calls[p])]

\* the row the create request p inserted, after the step and before it
InsertedRowAfter(p) == vms'[vm[p]]

PipelineOrder ==
  <<"create_empty_vm", "import_disk_ceph", "configure_vm", "start_vm",
    "poll_vm_ready", "run_setup_vm">>

LifecycleOps ==
  {"get", "start", "stop", "reboot", "extend", "reset", "delete", "vnc"}

\* the statement a lifecycle request starts at
FirstStep == {"g_get", "s_get", "t_get", "b_get", "x_get", "r_get", "d_get", "n_get"}

\* C15: every lifecycle operation first loads the record and checks the
\* owner, before any other validation or effect: for an unknown id it fails
\* with 404 and for a requester who is not the owner with 403, without a
\* remote call and with the records, the address pool and the VMID sequence
\* unchanged.
C15_OwnershipFirst ==
  [][\A p \in Procs :
       (/\ op[p] \in LifecycleOps
        /\ pc[p] \in FirstStep
        /\ pc'[p] # pc[p]
        /\ GetUserVm(p) # 0)
       => /\ pc'[p] = "done"
          /\ result'[p] = GetUserVm(p)
          /\ ~remote'[p]
          /\ UNCHANGED storeVars]_vars

\* C16: start on a record that is already Running is rejected and changes
\* nothing; start on an owned record that is not Running, when the remote
\* start has come back, leaves the record Running with runtime expiry
\* now + 12h.
C16_StartRunning ==
  [][\A p \in Procs :
       (op[p] = "start" /\ pc'[p] # pc[p]) =>
         /\ (/\ pc[p] = "s_get"
             /\ GetUserVm(p) = 0
             /\ vms[target[p]].vm_status = "running")
            => /\ pc'[p] = "done"
               /\ result'[p] = 400
               /\ ~remote'[p]
               /\ UNCHANGED storeVars
         /\ (pc'[p] = "done" /\ result'[p] = 200)
            => /\ loaded.vm_status # "running"
               /\ vms'[vm[p]].vm_status = "running"
               /\ vms'[vm[p]].runtime_expires_at = now + 12 * 60]_vars

C16_Witness ==
  \E p \in Procs :
    /\ op[p] = "start"
    /\ pc[p] = "done"
    /\ result[p] = 200
    /\ task = "ok"
    /\ now = TickMinutes
    /\ loaded.vm_status = "stopped"
    /\ vms[vm[p]].vm_status = "running"
    /\ vms[vm[p]].runtime_expires_at = TickMinutes + 12 * 60

\* C17: a successful extend(m) has 5 <= m <= 60 and sets the expiry to
\* exactly T + m minutes, T being the expiry of the Running record it read;
\* after any extend, successful or not, the expiry of the record is not
\* later than now + 12h.
C17_ExtendExact ==
  [][\A p \in Procs :
       (op[p] = "extend" /\ pc'[p] # pc[p]) =>
         /\ pc'[p] = "x_commit" =>
              /\ vms[target[p]].vm_status = "running"
              /\ extension_minutes[p] \in 5..60
              /\ new_expiry'[p] =
                   vms[target[p]].runtime_expires_at + extension_minutes[p]
         /\ pc[p] = "x_commit" =>
              /\ result'[p] = 200
              /\ vms'[vm[p]].runtime_expires_at = new_expiry[p]
         /\ (pc'[p] = "done" /\ target[p] \in VmIds) =>
              vms'[target[p]].runtime_expires_at <= now + 12 * 60]_vars

C17_Witness ==
  /\ \A p \in LifecycleProcs :
       /\ op[p] = "extend"
       /\ pc[p] = "done"
       /\ result[p] = 200
       /\ extension_minutes[p] = 10
  /\ vms[1].vm_status = "running"
  /\ vms[1].runtime_expires_at = DefaultTimeoutMinutes + 20

\* C18: extend is rejected, with the record's runtime expiry, last-active and
\* state unchanged, when minutes is outside 5..60, when the VM is not
\* Running, or when the current expiry plus minutes is later than now + 12h.
C18_ExtendRejected ==
  [][\A p \in Procs :
       (/\ op[p] = "extend"
        /\ pc[p] = "x_get"
        /\ pc'[p] # "x_get"
        /\ \/ extension_minutes[p] \notin 5..60
           \/ /\ GetUserVm(p) = 0
              /\ \/ vms[target[p]].vm_status # "running"
                 \/ vms[target[p]].runtime_expires_at + extension_minutes[p]
                      > now + 12 * 60)
       => /\ pc'[p] = "done"
          /\ result'[p] = 400
          /\ UNCHANGED storeVars]_vars

C18_Witness ==
  \E p \in Procs :
    /\ op[p] = "extend"
    /\ pc[p] = "done"
    /\ result[p] = 400
    /\ extension_minutes[p] = 60
    /\ GetUserVm(p) = 0
    /\ vms[target[p]].vm_status = "running"
    /\ vms[target[p]].runtime_expires_at = DefaultTimeoutMinutes
    /\ \A q \in Procs \ {p} : pc[q] = "idle"

\* request q has committed the VMID it read off the sequence
CommittedVmid(q) ==
  \/ op[q] = "create" /\ vm[q] # NoVm
  \/ /\ op[q] = "reset"
     /\ pc[q] \in {"r_build", "r_destroy", "r_ansible", "done"}
     /\ new_vmid[q] # 0

C21_DeleteBestEffort ==
  [][\A p \in Procs :
       (op[p] = "delete" /\ pc'[p] # pc[p]) =>
         /\ (pc[p] = "d_get" /\ GetUserVm(p) = 0) => pc'[p] = "d_destroy"
         /\ pc[p] = "d_destroy" => pc'[p] = "d_commit"
         /\ pc[p] = "d_commit" =>
              /\ pc'[p] = "done"
              /\ result'[p] = 200
              /\ vms'[vm[p]].vm_status = "deleted"
              /\ ipStatus'[vms[vm[p]].ip_address] = "free"]_vars

C21_Witness ==
  \E p \in Procs :
    /\ op[p] = "delete"
    /\ pc[p] = "done"
    /\ result[p] = 200
    /\ Called(p, "destroy_vm", "fail")
    /\ vms[vm[p]].vm_status = "deleted"
    /\ ipStatus[vms[vm[p]].ip_address] = "free"

\* the rows that carry the address a
RowsWithAddress(a) == {i \in VmIds : vms[i].ip_address = a}

C23_DeletedAbsorbing ==
  [][\A p \in Procs :
       (/\ op[p] \in LifecycleOps \ {"vnc"}
        /\ pc'[p] # pc[p]
        /\ pc[p] # "idle"
        /\ target[p] \in VmIds
        /\ vms[target[p]].vm_status = "deleted")
       => /\ UNCHANGED <<vms, ipStatus, next_id>>
          /\ pc'[p] = "done" => result'[p] >= 400]_vars

\* C24: a record enters Deleted only from Ready, Running, Stopped or Failed
\* and only by a delete: a delete issued while the record is Created or
\* Provisioning does not mark it Deleted, so that the pipeline of a createVM
\* never writes a state onto a Deleted record.
C24_DeletedOnlyFromTerminal ==
  [][/\ \A i \in VmIds :
          (vms[i].vm_status # "deleted" /\ vms'[i].vm_status = "deleted") =>
            /\ vms[i].vm_status \in {"ready", "running", "stopped", "failed"}
            /\ \E p \in Procs : op[p] = "delete" /\ pc[p] = "d_commit" /\ vm[p] = i
     /\ \A p \in Procs :
          (op[p] = "create" /\ vm[p] # NoVm /\ vms[vm[p]].vm_status = "deleted") =>
            vms'[vm[p]].vm_status = "deleted"]_vars

\* C25: in every reachable state every address whose status is Allocated is
\* the address of exactly one VM record whose state is not Deleted.
C25_AllocatedLinked ==
  \A a \in IPs :
    ipStatus[a] = "allocated" =>
      Cardinality({i \in NotDeleted : vms[i].ip_address = a}) = 1


\* the ids of the rows loop l loaded in its last select
LoadedBy(l) == {mon[l].vms[k].id : k \in DOMAIN mon[l].vms}

\* loop l sleeps after a cycle during which nobody else wrote a row
CycleDone(l) == mon[l].pc = "sleep" /\ mon[l].clean /\ mon[l].runs >= 1

\* C26: when the cluster reports a VM on a node and the record says another
\* one, the record's node is the reported node after one cycle of the node
\* check, and exactly one alert was sent for the VM
C26_NodeReconciled ==
  CycleDone("migrations") =>
    \A id \in LoadedBy("migrations") :
      cluster[id].node # NoNode =>
        /\ RecordNode(vms[id]) = cluster[id].node
        /\ alerts[id] = 1

\* C27: a second cycle of a loop, with no change in the cluster and no
\* other writer in between, changes no record and sends no alert, whatever
\* status the hypervisor reports
C27_SecondCycleIdempotent ==
  [][\A l \in Loops :
       (mon'[l].runs = 2 /\ mon'[l].pc = "sleep" /\ mon[l].pc # "sleep") =>
         /\ mon[l].base # <<>>
         /\ vms' = mon[l].base[1].vms
         /\ alerts' = mon[l].base[1].alerts]_vars

\* the status loop has ended a second cycle in a row after its first cycle
\* wrote Running over a Ready record whose VM the hypervisor reports running
C27_Witness ==
  /\ mon["status"].runs = 2
  /\ mon["status"].pc = "sleep"
  /\ 1 \in LoadedBy("status")
  /\ cluster[1] = [node |-> PROXMOX_NODE, status |-> "running"]
  /\ vms[1].vm_status = "running"
  /\ vms[1].last_active_at = 0
  /\ vms[1].runtime_expires_at = DefaultTimeoutMinutes
  /\ cluster[2].status = "stopped"
  /\ vms[2].vm_status = "stopped"

\* a step of one of the two loops
MonitorStep == (\E l \in Loops : MonitorLoad(l) \/ MonitorWake(l))
                 \/ MigrationCheck \/ StatusCheck

\* C28: no step of the loops modifies a record that is Failed or Deleted,
\* also when the deletion commits between the loop's select and its write
C28_TerminalUntouched ==
  [][MonitorStep =>
       \A id \in VmIds :
         vms[id].vm_status \in {"failed", "deleted"} => vms'[id] = vms[id]]_vars

\* C29: a failure on one VM (lookup error, timeout, VM on no node) leaves
\* its record unchanged and does not keep the cycle from processing the
\* remaining VMs: when a cycle ends whose first VM the cluster did not
\* answer for, every VM the cycle loaded was looked up
C29_FailureIsolated ==
  [][\A l \in Loops :
       (/\ mon[l].pc = "each"
        /\ mon'[l].pc = "sleep"
        /\ cluster[mon[l].vms[1].id].node = NoNode) =>
         /\ mon'[l].checked = LoadedBy(l)
         /\ \A id \in LoadedBy(l) :
              cluster[id].node = NoNode => vms'[id] = vms[id]]_vars



\* the entries of the nodes, in the order of PROXMOX_NODES
NodeLoads == [k \in DOMAIN PROXMOX_NODES |-> NodeLoad(PROXMOX_NODES[k], node_status[k])]

\* the nodes that are online with CPU and memory below the thresholds
Qualifying == {k \in DOMAIN PROXMOX_NODES : BelowThresholds(NodeLoads[k])}

\* C30: when at least one node is online with CPU and memory below the
\* thresholds, select_best_node returns such a node, and none of them has a
\* smaller average of CPU percent and memory percent
C30_BestNodeMinimal ==
  (best_node # "none" /\ Qualifying # {}) =>
    \E k \in Qualifying :
      /\ best_node = PROXMOX_NODES[k]
      /\ \A j \in Qualifying :
           NodeLoads[k].cpu_percent + NodeLoads[k].memory_percent
             <= NodeLoads[j].cpu_percent + NodeLoads[j].memory_percent

\* the last node was selected although the first one has the smallest load
\* (its status is not online) and the second one has the smaller CPU load
C30_Witness ==
  /\ best_node = "pve3"
  /\ Qualifying = {2, 3}
  /\ NodeLoads[1].status = "unknown"
  /\ NodeLoads[1].cpu_percent + NodeLoads[1].memory_percent = 30
  /\ NodeLoads[2].cpu_percent < NodeLoads[3].cpu_percent



\* C31: select_best_node always returns a node name and never fails: when
\* no node qualifies it returns a node whose average load is the lowest of
\* all nodes, a node that cannot be reached counting as loaded 100 percent,
\* so that it returns a node also when no node can be reached
C31_AlwaysReturnsNode ==
  best_node # "none" =>
    /\ \E k \in DOMAIN PROXMOX_NODES : best_node = PROXMOX_NODES[k]
    /\ Qualifying = {} =>
         \E k \in DOMAIN PROXMOX_NODES :
           /\ best_node = PROXMOX_NODES[k]
           /\ \A j \in DOMAIN PROXMOX_NODES :
                LoadKey(NodeLoads[k]) <= LoadKey(NodeLoads[j])



\* C32: a record that is Running and whose runtime_expires_at has passed
\* eventually leaves Running: the VM started through start_vm is stopped
\* without anybody asking for it
C32_ExpiredRunningStops ==
  (/\ vms[1].vm_status = "running"
   /\ vms[1].runtime_expires_at # NoTime
   /\ now > vms[1].runtime_expires_at) ~> (vms[1].vm_status # "running")



\* C33: in every reachable state a record's runtime_expires_at is set only
\* if the record is Running: a record that is Created, Provisioning, Ready,
\* Stopped, Failed or Deleted has none
C33_ExpiryOnlyWhileRunning ==
  \A i \in VmIds :
    vms[i].runtime_expires_at # NoTime => vms[i].vm_status = "running"



\* C34: the VMID sequence is a pure increment: no step of an allocation,
\* the write-back of a failed one included, lowers the committed next value
\* of the counter
C34_CounterNeverDecreases ==
  [][next_id' >= next_id]_vars



\* the answer the wait ended on
LastAnswer == wait.answers[wait.polls]

\* C35: the wait on a task returns success if and only if the task was
\* seen stopped with exit status OK; a task that stopped with another exit
\* status and a status request that fails, "not found" included, end the
\* wait with an error, and a task that does not stop in time with Timeout
C35_TaskWaitOutcome ==
  (wait.out # "none") =>
    /\ wait.out = "true" <=>
         (/\ wait.polls > 0
          /\ ~LastAnswer.raises
          /\ LastAnswer.status = "stopped"
          /\ LastAnswer.text = <<"OK">>)
    /\ wait.out = "timeout" <=>
         \A k \in 1..MaxTaskPolls :
           ~wait.answers[k].raises /\ wait.answers[k].status = "running"



C37_EventuallyReconciled ==
  \A i \in 1..2 :
    /\ (vms[i].vm_status \in TrackedStatuses /\ cluster[i].node # NoNode)
         => <>[](RecordNode(vms[i]) = cluster[i].node)
    /\ (/\ vms[i].vm_status \in TrackedStatuses
        /\ cluster[i].node = PROXMOX_NODE
        /\ cluster[i].status \in {"running", "stopped"})
         => <>[](vms[i].vm_status = cluster[i].status)



\* C38: in every reachable state a record that is Running has a
\* runtime_expires_at, whichever component made it Running: start_vm,
\* reset_vm or the status loop
C38_RunningHasExpiry ==
  \A i \in VmIds :
    vms[i].vm_status = "running" => vms[i].runtime_expires_at # NoTime



\* C39: in every reachable state the address of every record that is not
\* Deleted is Allocated in the pool: no sequence of create, delete and
\* reset leaves such a record on an address that is Free
C39_HeldAddressAllocated ==
  \A i \in NotDeleted : ipStatus[vms[i].ip_address] = "allocated"



====
